---- MODULE Spec2Model ----
(***************************************************************************)
(* A model of flint's MISSIONS folds (src/flint/missions.py) and of its    *)
(* path service (src/flint/paths.py).                                      *)
(*                                                                         *)
(* The specifications share the variables and the actions:                 *)
(*   SpecFold   get_mbases on an installation whose mbases.ini varies      *)
(*   SpecNews   get_news on an installation whose news.ini varies          *)
(*   SpecPath   fix_path_case on a directory tree, with its cache          *)
(*   SpecIndex  set_install_path, construct_path and the cached queries    *)
(*              on a disk with two installations                           *)
(***************************************************************************)
EXTENDS Integers, Sequences, FiniteSets, TLC

VARIABLES
    stream,      \* the sections of mbases.ini of installation g1, in file order
    mbases,      \* the memo of get_mbases: "not called", or the dict it returned
    props,       \* the memo of get_faction_props: "not called", or the dict
    fs,          \* the directory tree: directory |-> its entries as listdir gives them
    osName,      \* os.name
    cache,       \* the cache of fix_path_case: argument |-> returned path
    outcomes,    \* history: argument |-> every outcome of a direct call with it
    install,     \* paths.install
    inis,        \* paths.inis: category |-> the paths of its files
    dlls,        \* paths.dlls: dll number |-> path
    disk,        \* the parsed contents of the ini files on disk, by path
    last,        \* history: the last call of an operation of the installation
    feed,        \* the sections of news.ini of installation g1, in file order
    news         \* the memo of get_news: "not called", or the dict it returned

foldVars == <<stream, mbases, props>>

pathVars == <<fs, osName, cache, outcomes>>

indexVars == <<install, inis, dlls, disk, last>>

newsVars == <<feed, news>>

vars ==
    <<stream, mbases, props, fs, osName, cache, outcomes, install, inis, dlls, disk, last,
      feed, news>>

------------------------------------------------------------------------------
(* Bounds *)

MaxStream == 4

\* distinct arguments fix_path_case is called with in one process
MaxCalls == 2

------------------------------------------------------------------------------
(* Generic helpers *)

Range(s) == {s[i] : i \in 1..Len(s)}

SeqsUpTo(S, n) == UNION {[1..k -> S] : k \in 0..n}

------------------------------------------------------------------------------
(* mbases.ini: the records the parser delivers *)

Absent == "<absent>"

\* One section of mbases.ini, reduced to what get_mbases reads: its name, its
\* nickname key (Absent when the section has none), whether it has a
\* reputation key, and whether it has no keys at all.
Section(kind, nickname, reputation, empty) ==
    [kind |-> kind, nickname |-> nickname, reputation |-> reputation, empty |-> empty]

Sections ==
    { Section("mbase", "a", FALSE, FALSE),
      Section("mbase", "b", FALSE, FALSE),
      Section("mvendor", Absent, FALSE, FALSE),
      Section("mvendor", Absent, FALSE, TRUE),
      Section("basefaction", Absent, FALSE, FALSE),
      Section("basefaction", Absent, TRUE, FALSE),
      Section("gf_npc", "n", FALSE, FALSE),
      Section("gf_npc", Absent, FALSE, FALSE),
      Section("mroom", "r", FALSE, FALSE) }

ChildKinds == {"mvendor", "basefaction", "gf_npc", "mroom"}

\* a file of two bases: the first with a vendor and a faction, the second with
\* a room
ExampleStream ==
    << Section("mbase", "a", FALSE, FALSE),
       Section("mvendor", Absent, FALSE, FALSE),
       Section("basefaction", Absent, FALSE, FALSE),
       Section("mbase", "b", FALSE, FALSE),
       Section("mroom", "r", FALSE, FALSE) >>

\* a file that declares base a twice, with base b between the two declarations
RepeatedStream ==
    << Section("mbase", "a", FALSE, FALSE),
       Section("mvendor", Absent, FALSE, FALSE),
       Section("mbase", "b", FALSE, FALSE),
       Section("mroom", "r", FALSE, FALSE),
       Section("mbase", "a", FALSE, FALSE) >>

\* ini.group(path, fold_sections=False): contiguous sections of the same name
\* become one (name, contents) pair, contents holding one mapping per section.
\* Each mapping carries pos, the section's place in the file.
RECURSIVE GroupFrom(_, _, _)
GroupFrom(s, i, acc) ==
    IF i > Len(s) THEN acc
    ELSE LET item == [pos |-> i, fields |-> s[i]]
             n == Len(acc)
         IN IF n > 0 /\ acc[n].name = s[i].kind
            THEN GroupFrom(s, i + 1,
                    [acc EXCEPT ![n].contents = Append(@, item)])
            ELSE GroupFrom(s, i + 1,
                    Append(acc, [name |-> s[i].kind, contents |-> <<item>>]))

group(s) == GroupFrom(s, 1, <<>>)

------------------------------------------------------------------------------
(* The entities *)

\* MBase(**fields): the four lists start empty, one fresh list per instance
MBase(item) ==
    [src |-> item.pos, nickname |-> item.fields.nickname,
     vendors |-> <<>>, factions |-> <<>>, npcs |-> <<>>, rooms |-> <<>>]

\* MVendor / BaseFaction / GF_NPC / MRoom (**fields)
Child(item) == [src |-> item.pos, nickname |-> item.fields.nickname]

------------------------------------------------------------------------------
(* get_mbases *)

\* contents = list(filter(None, contents)): mappings without keys are dropped
FilterNone(contents) == SelectSeq(contents, LAMBDA c : ~c.fields.empty)

\* the entity constructor applied to each mapping, in order
Children(items) == [k \in 1..Len(items) |-> Child(items[k])]

\* the comprehension without its condition
EveryMapping(contents) == contents

\* `for faction in contents if not "reputation" in faction.keys()`
WithoutReputation(contents) == SelectSeq(contents, LAMBDA c : ~c.fields.reputation)

\* `for npc in contents if 'nickname' in npc`
WithNickname(contents) == SelectSeq(contents, LAMBDA c : c.fields.nickname # Absent)

Raise(st, what) == [st EXCEPT !.error = what]

\* `if name == 'mbase'`: one MBase from contents[0], appended to bases and
\* bound to `base`
OnMBase(st, contents) ==
    IF contents = <<>> THEN Raise(st, "IndexError")
    ELSE [st EXCEPT !.bases = Append(@, MBase(contents[1]))]

\* the child branches with a guard that skips children met before any mbase
OnChildGuarded(st, name, contents) ==
    LET n == Len(st.bases)
    IN IF n = 0 THEN st
       ELSE CASE name = "mvendor" ->
                   IF contents = <<>> THEN Raise(st, "IndexError")
                   ELSE [st EXCEPT !.bases[n].vendors = Append(@, Child(contents[1]))]
              [] name = "basefaction" ->
                   [st EXCEPT !.bases[n].factions =
                       @ \o Children(WithoutReputation(contents))]
              [] name = "gf_npc" ->
                   [st EXCEPT !.bases[n].npcs =
                       @ \o Children(WithNickname(contents))]
              [] name = "mroom" ->
                   [st EXCEPT !.bases[n].rooms =
                       @ \o Children(contents)]

\* the child branches with every list reversed on extension
OnChildPrepend(st, name, contents) ==
    LET n == Len(st.bases)
    IN IF n = 0 THEN Raise(st, "UnboundLocalError")
       ELSE CASE name = "mvendor" ->
                   IF contents = <<>> THEN Raise(st, "IndexError")
                   ELSE [st EXCEPT !.bases[n].vendors = <<Child(contents[1])>> \o @]
              [] name = "basefaction" ->
                   [st EXCEPT !.bases[n].factions =
                       Children(WithoutReputation(contents)) \o @]
              [] name = "gf_npc" ->
                   [st EXCEPT !.bases[n].npcs =
                       Children(WithNickname(contents)) \o @]
              [] name = "mroom" ->
                   [st EXCEPT !.bases[n].rooms =
                       Children(contents) \o @]

\* the elif branches for mvendor, basefaction, gf_npc and mroom.  `base` is the
\* MBase appended last, so it is bases[Len(bases)]; before the first mbase the
\* name is unbound and reading it raises.
OnChild(st, name, contents) ==
    LET n == Len(st.bases)
    IN IF n = 0 THEN Raise(st, "UnboundLocalError")
       ELSE CASE name = "mvendor" ->
                   IF contents = <<>> THEN Raise(st, "IndexError")
                   ELSE [st EXCEPT !.bases[n].vendors = Append(@, Child(contents[1]))]
              [] name = "basefaction" ->
                   [st EXCEPT !.bases[n].factions =
                       @ \o Children(WithoutReputation(contents))]
              [] name = "gf_npc" ->
                   [st EXCEPT !.bases[n].npcs =
                       @ \o Children(WithNickname(contents))]
              [] name = "mroom" ->
                   [st EXCEPT !.bases[n].rooms =
                       @ \o Children(contents)]

\* the body of `for name, contents in sections`
RECURSIVE FoldSections(_, _, _)
FoldSections(sections, i, st) ==
    IF i > Len(sections) \/ st.error # "" THEN st
    ELSE LET name == sections[i].name
             contents == FilterNone(sections[i].contents)
         IN FoldSections(sections, i + 1,
               IF name = "mbase" THEN OnMBase(st, contents)
               ELSE IF name \in ChildKinds THEN OnChild(st, name, contents)
               ELSE st)

\* {b.nickname: b for b in bases}: a dict keeps the place of a key's first
\* insertion and the value of its last
RECURSIVE DictByNickname(_, _, _)
DictByNickname(bases, i, acc) ==
    IF i > Len(bases) THEN acc
    ELSE LET hit == {k \in 1..Len(acc) : acc[k].nickname = bases[i].nickname}
         IN DictByNickname(bases, i + 1,
               IF hit = {} THEN Append(acc, bases[i])
               ELSE [acc EXCEPT ![CHOOSE k \in hit : TRUE] = bases[i]])

\* the body of get_mbases() from line 38 on, s being the sections of the
\* file: a raise, or the dict as the sequence of its values in iteration order
get_mbases(s) ==
    LET st == FoldSections(group(s), 1, [bases |-> <<>>, error |-> ""])
    IN IF st.error # "" THEN [status |-> st.error, value |-> <<>>]
       ELSE [status |-> "ok", value |-> DictByNickname(st.bases, 1, <<>>)]

\* the memo of a @cached function without arguments that has not returned yet
NotCalled == [status |-> "not called", value |-> <<>>]

\* `install: str` is declared without a value
Unset == <<>>

\* nothing has been called yet
NoCall ==
    [op |-> "", path |-> <<>>, discovery |-> FALSE, error |-> "", value |-> <<>>,
     indexed |-> <<>>]

------------------------------------------------------------------------------
(* missions.py: get_news *)

\* items of news.ini read in one call
MaxNews == 2

\* The raw values of ini.parse: a key that occurs once in its section gives
\* its value, a key that occurs several times the list of its values.
Str(s) == [type |-> "str", v |-> <<s>>]

List(vs) == [type |-> "list", v |-> vs]

Tuple(vs) == [type |-> "tuple", v |-> vs]

Bool(b) == [type |-> "bool", v |-> <<IF b THEN "True" ELSE "False">>]

None == [type |-> "None", v |-> <<>>]

\* the fields of NewsItem, those without a default, and the defaults
NewsFields == {"category", "headline", "text", "rank", "icon", "logo", "audio", "base"}

Required == {"category", "headline", "text"}

Default(k) ==
    CASE k = "rank" -> Tuple(<<>>)
      [] k = "icon" -> Str("")
      [] k = "logo" -> Str("")
      [] k = "audio" -> Bool(FALSE)
      [] k = "base" -> List(<<>>)
      [] OTHER -> None

\* the contents of one section: the keys that occur, each with its raw value
Contents(base, headline, rank, icon) ==
    LET all == [category |-> Str("c"), headline |-> headline, text |-> Str("t"),
                rank |-> rank, icon |-> icon, base |-> base]
    IN [k \in {f \in DOMAIN all : all[f] # None} |-> all[k]]

NewsRecords ==
    { Contents(base, headline, rank, icon) :
        base \in {None, Str("a"), List(<<"a", "b">>), List(<<"b", "a", "c">>)},
        headline \in {None, Str("h1"), List(<<"h1", "h2">>)},
        rank \in {None, List(<<"r1", "r2">>)},
        icon \in {None, List(<<"i1", "i2">>)} }

\* the collapse that keeps the first occurrence
CollapseFirst(contents) ==
    [k \in DOMAIN contents |->
        IF contents[k].type = "list" /\ k # "base" /\ k # "rank"
        THEN Str(contents[k].v[1])
        ELSE contents[k]]

\* lines 66-68: contents[key] = value[-1] for every list but base and rank
Collapse(contents) ==
    [k \in DOMAIN contents |->
        IF contents[k].type = "list" /\ k # "base" /\ k # "rank"
        THEN Str(contents[k].v[Len(contents[k].v)])
        ELSE contents[k]]

\* lines 70-73: the bases to file the item under; none for a missing or
\* empty value, the value itself as the only one when it is not a list
BasesOf(contents) ==
    IF "base" \notin DOMAIN contents THEN <<>>
    ELSE IF contents["base"].type = "list" THEN contents["base"].v
    ELSE IF contents["base"] = Str("") THEN <<>>
    ELSE contents["base"].v

\* NewsItem(**contents) takes exactly the declared fields and needs those
\* without a default
Constructible(contents) ==
    Required \subseteq DOMAIN contents /\ DOMAIN contents \subseteq NewsFields

\* NewsItem(**contents): the id tells the instances apart, src is the place
\* in the file of the section it was made from
NewsItem(contents, id, src) ==
    [id |-> id, src |-> src,
     fields |-> [k \in NewsFields |->
                    IF k \in DOMAIN contents THEN contents[k] ELSE Default(k)]]

\* result[base].append(item) on the defaultdict
AppendUnder(result, base, item) ==
    [b \in DOMAIN result \cup {base} |->
        IF b = base THEN (IF b \in DOMAIN result THEN result[b] ELSE <<>>) \o <<item>>
        ELSE result[b]]

\* lines 74-75: for base in bases: result[base].append(NewsItem(**contents))
RECURSIVE AppendEach(_, _, _, _)
AppendEach(acc, bases, contents, src) ==
    IF bases = <<>> \/ acc.status # "ok" THEN acc
    ELSE IF ~Constructible(contents) THEN [acc EXCEPT !.status = "TypeError"]
    ELSE AppendEach(
             [status |-> "ok",
              result |-> AppendUnder(acc.result, Head(bases),
                                     NewsItem(contents, acc.made + 1, src)),
              made |-> acc.made + 1],
             Tail(bases), contents, src)

\* lines 65-75: the loop over the sections, j being the place of the next
RECURSIVE FoldNews(_, _, _)
FoldNews(acc, records, j) ==
    IF j > Len(records) \/ acc.status # "ok" THEN acc
    ELSE FoldNews(AppendEach(acc, BasesOf(Collapse(records[j])), Collapse(records[j]), j),
                  records, j + 1)

\* what the loop left: the dict, or the raise
NewsOutcome(acc) ==
    [status |-> acc.status, value |-> IF acc.status = "ok" THEN acc.result ELSE <<>>]

\* the body of get_news() from line 63 on, records being the sections of the
\* file
get_news(records) ==
    NewsOutcome(FoldNews([status |-> "ok", result |-> <<>>, made |-> 0], records, 1))

------------------------------------------------------------------------------
(* missions.py: get_faction_props *)

\* One [FactionProps] section of faction_prop.ini, reduced to what
\* get_faction_props reads: its affiliation key (Absent when it has none).
\* The other fields FactionProps requires are taken to be there.
PropsSection(affiliation) == [affiliation |-> affiliation]

\* FactionProps(**p), src being the place of the section in the file
FactionProps(p, src) == [src |-> src, affiliation |-> p.affiliation]

\* {p['affiliation']: FactionProps(**p) for p in props['factionprops']}: a
\* section without the key raises; a dict keeps the place of a key's first
\* insertion and the value of its last
RECURSIVE DictByAffiliation(_, _, _)
DictByAffiliation(sections, i, acc) ==
    IF i > Len(sections) \/ acc.status # "ok" THEN acc
    ELSE IF sections[i].affiliation = Absent THEN [status |-> "KeyError", value |-> <<>>]
    ELSE LET hit == {k \in 1..Len(acc.value) :
                        acc.value[k].affiliation = sections[i].affiliation}
         IN DictByAffiliation(sections, i + 1,
               [acc EXCEPT !.value =
                   IF hit = {} THEN Append(@, FactionProps(sections[i], i))
                   ELSE [@ EXCEPT ![CHOOSE k \in hit : TRUE] = FactionProps(sections[i], i)]])

\* the body of get_faction_props() from the comprehension on, sections being
\* the [FactionProps] sections of the file
get_faction_props(sections) ==
    DictByAffiliation(sections, 1, [status |-> "ok", value |-> <<>>])

------------------------------------------------------------------------------
(* Path strings: sequences of characters *)

Sep == "/"

\* the characters path.rstrip(r'\/') strips
Slashes == {"/", "\\"}

RECURSIVE rstrip(_)
rstrip(p) ==
    IF p # <<>> /\ p[Len(p)] \in Slashes THEN rstrip(SubSeq(p, 1, Len(p) - 1)) ELSE p

Upper == <<"A", "B", "C", "D", "E", "F", "G", "H", "I", "J", "K", "L", "M",
           "N", "O", "P", "Q", "R", "S", "T", "U", "V", "W", "X", "Y", "Z">>

Lower == <<"a", "b", "c", "d", "e", "f", "g", "h", "i", "j", "k", "l", "m",
           "n", "o", "p", "q", "r", "s", "t", "u", "v", "w", "x", "y", "z">>

\* the lower-case letter of every upper-case letter
Folds == [c \in {Upper[i] : i \in 1..Len(Upper)} |-> Lower[CHOOSE i \in 1..Len(Upper) : Upper[i] = c]]

\* str.casefold, one character at a time (ASCII)
FoldChar(c) == IF c \in DOMAIN Folds THEN <<Folds[c]>> ELSE <<c>>

RECURSIVE casefold(_)
casefold(s) == IF s = <<>> THEN <<>> ELSE FoldChar(Head(s)) \o casefold(Tail(s))

\* the place of the last separator of p, 0 when it has none
LastSep(p) ==
    LET at == {i \in 1..Len(p) : p[i] = Sep}
    IN IF at = {} THEN 0 ELSE CHOOSE i \in at : \A j \in at : j <= i

RECURSIVE StripSep(_)
StripSep(p) ==
    IF p # <<>> /\ p[Len(p)] = Sep THEN StripSep(SubSeq(p, 1, Len(p) - 1)) ELSE p

\* os.path.split (posixpath): head is everything before the last separator,
\* without trailing separators unless it is only separators
split(p) ==
    LET i == LastSep(p)
        head == SubSeq(p, 1, i)
    IN [head |-> IF StripSep(head) = <<>> THEN head ELSE StripSep(head),
        tail |-> SubSeq(p, i + 1, Len(p))]

\* os.path.join(head, name) for a relative name
join(head, name) ==
    IF head = <<>> \/ head[Len(head)] = Sep THEN head \o name
    ELSE head \o <<Sep>> \o name

\* the names between the separators of p
RECURSIVE Segments(_)
Segments(p) ==
    IF p = <<>> THEN <<>>
    ELSE LET i == LastSep(p)
             name == SubSeq(p, i + 1, Len(p))
         IN Segments(SubSeq(p, 1, i - 1)) \o (IF name = <<>> THEN <<>> ELSE <<name>>)

\* the path string of the names in segs under the root
RECURSIVE PathOf(_)
PathOf(segs) ==
    IF segs = <<>> THEN <<>>
    ELSE PathOf(SubSeq(segs, 1, Len(segs) - 1)) \o <<Sep>> \o segs[Len(segs)]

------------------------------------------------------------------------------
(* The directory tree *)

IsDir(tree, segs) == segs \in DOMAIN tree

NodeExists(tree, segs) ==
    \/ segs = <<>>
    \/ /\ IsDir(tree, SubSeq(segs, 1, Len(segs) - 1))
       /\ segs[Len(segs)] \in Range(tree[SubSeq(segs, 1, Len(segs) - 1)])

\* os.path.exists on a case-sensitive filesystem; '' does not exist
exists(tree, p) == p # <<>> /\ p[1] = Sep /\ NodeExists(tree, Segments(p))

\* os.path.isdir
isdir(tree, p) == exists(tree, p) /\ IsDir(tree, Segments(p))

\* os.listdir of an existing directory
listdir(tree, p) == tree[Segments(p)]

------------------------------------------------------------------------------
(* fix_path_case *)

Ok(p) == [error |-> "", path |-> p]

Err(what) == [error |-> what, path |-> <<>>]

\* next(filter(lambda s: s.casefold() == tail.casefold(), entries), None)
FirstMatch(entries, tail) ==
    LET hits == {i \in 1..Len(entries) : casefold(entries[i]) = casefold(tail)}
    IN IF hits = {} THEN <<>>
       ELSE <<entries[CHOOSE i \in hits : \A j \in hits : i <= j]>>

\* correct_subpath: climb until the head exists, then give the tail the case
\* of the first entry of head that matches it.  Listing a head that is a file
\* raises; the climb from '' never ends (split('') is ('', '')).  Its own
\* @cached lives for one call of fix_path_case, during which the tree is fixed.
RECURSIVE correct_subpath(_, _)
correct_subpath(tree, p) ==
    LET head == split(p).head
        tail == split(p).tail
    IN IF exists(tree, head)
       THEN IF ~isdir(tree, head) THEN Err("NotADirectoryError")
            ELSE LET m == FirstMatch(listdir(tree, head), tail)
                 IN IF m = <<>> THEN Err("FileNotFoundError")
                    ELSE Ok(join(head, m[1]))
       ELSE IF head = p THEN Err("RecursionError")
       ELSE correct_subpath(tree, head)

\* the loop left out: the first corrected level, then the rest of path as given
DriverOnce(tree, p, result) ==
    IF result.error # "" THEN result
    ELSE Ok(result.path \o SubSeq(p, Len(result.path) + 1, Len(p)))

\* `while len(result) != len(path)`: re-apply correct_subpath to the corrected
\* part followed by the rest of path.  A round that returns what it was given
\* without reaching len(path) repeats forever.
RECURSIVE Driver(_, _, _)
Driver(tree, p, result) ==
    IF result.error # "" \/ Len(result.path) = Len(p) THEN result
    ELSE LET arg == result.path \o SubSeq(p, Len(result.path) + 1, Len(p))
             next == correct_subpath(tree, arg)
         IN IF next = result THEN Err("Hang")
            ELSE Driver(tree, p, next)

\* the body of fix_path_case
fix_path_case(tree, os, path) ==
    LET p == rstrip(path)
    IN IF os = "nt" THEN Ok(p)
       ELSE Driver(tree, p, correct_subpath(tree, p))

\* a call that computes every time
Uncached(c, tree, os, path) == fix_path_case(tree, os, path)

\* @cached fix_path_case: the value stored for this argument, else the body
Cached(c, tree, os, path) ==
    IF path \in DOMAIN c THEN Ok(c[path]) ELSE fix_path_case(tree, os, path)

\* what @cached stores: the value a call returned; a raise stores nothing
Store(c, path, r) ==
    IF r.error # "" \/ path \in DOMAIN c THEN c
    ELSE [q \in DOMAIN c \cup {path} |-> IF q = path THEN r.path ELSE c[q]]

Record(h, path, r) ==
    [q \in DOMAIN h \cup {path} |->
        IF q = path THEN (IF q \in DOMAIN h THEN h[q] ELSE {}) \cup {r} ELSE h[q]]

------------------------------------------------------------------------------
(* SpecPath: calls of fix_path_case on a tree that stays as it is *)

Ab == <<"A", "b">>
AB == <<"A", "B">>
ab == <<"a", "b">>
cc == <<"c">>

DiskNames == {Ab, AB, cc}

PathNames == {ab, Ab, AB}

Injective(s) == \A i, j \in 1..Len(s) : i # j => s[i] # s[j]

\* what listdir may give for the root: up to two entries, in either order
Listings == {s \in SeqsUpTo(DiskNames, 2) : Injective(s)}

\* what listdir may give for a directory below the root
SubListings == SeqsUpTo(DiskNames, 1)

IsFile == <<Sep>>

Tree(top, sub) ==
    [d \in {<<>>} \cup {<<e>> : e \in {x \in Range(top) : sub[x] # <<IsFile>>}} |->
        IF d = <<>> THEN top ELSE sub[d[1]]]

\* the root with its entries, each a file or a directory of files
Trees ==
    UNION { {Tree(top, sub) : sub \in [Range(top) -> SubListings \cup {<<IsFile>>}]} :
            top \in Listings }

\* the arguments: the root, the paths of one name with and without a trailing
\* separator, and the paths of two names
Paths ==
    {<<Sep>>}
    \cup {PathOf(<<n>>) : n \in PathNames}
    \cup {PathOf(<<n>>) \o <<Sep>> : n \in PathNames}
    \cup {PathOf(<<n, m>>) : n \in PathNames, m \in PathNames}

OsNames == {"posix", "nt"}

InitPath ==
    /\ stream = <<>>
    /\ mbases = NotCalled
    /\ props = NotCalled
    /\ fs \in Trees
    /\ osName \in OsNames
    /\ cache = <<>>
    /\ outcomes = <<>>
    /\ install = Unset
    /\ inis = <<>>
    /\ dlls = <<>>
    /\ disk = <<>>
    /\ last = NoCall
    /\ feed = <<>>
    /\ news = NotCalled

\* fix_path_case(path)
FixPathCase(path) ==
    /\ path \in DOMAIN outcomes \/ Cardinality(DOMAIN outcomes) < MaxCalls
    /\ LET r == Cached(cache, fs, osName, path)
       IN /\ cache' = Store(cache, path, r)
          /\ outcomes' = Record(outcomes, path, r)
    /\ UNCHANGED <<foldVars, fs, osName, indexVars, newsVars>>

NextPath == \E path \in Paths : FixPathCase(path)

SpecPath == InitPath /\ [][NextPath]_vars

------------------------------------------------------------------------------
(* SpecPathChange: calls of fix_path_case while the tree changes between them *)

\* the trees without directories below the root
FlatTrees == {t \in Trees : DOMAIN t = {<<>>}}

\* the arguments of at most one name
ShortPaths == {q \in Paths : Len(Segments(q)) <= 1}

InitPathChange ==
    /\ stream = <<>>
    /\ mbases = NotCalled
    /\ props = NotCalled
    /\ fs \in FlatTrees
    /\ osName \in OsNames
    /\ cache = <<>>
    /\ outcomes = <<>>
    /\ install = Unset
    /\ inis = <<>>
    /\ dlls = <<>>
    /\ disk = <<>>
    /\ last = NoCall
    /\ feed = <<>>
    /\ news = NotCalled

\* entries are created, removed or enumerated in another order
FsChange ==
    /\ fs' \in FlatTrees \ {fs}
    /\ UNCHANGED <<foldVars, osName, cache, outcomes, indexVars, newsVars>>

NextPathChange ==
    \/ \E path \in ShortPaths : FixPathCase(path)
    \/ FsChange

SpecPathChange == InitPathChange /\ [][NextPathChange]_vars

------------------------------------------------------------------------------
(* paths.py: the installation index *)

DATA == <<"D", "A", "T", "A">>
DLLS == <<"D", "L", "L", "S">>
EXE == <<"E", "X", "E">>
DSLauncher_exe == <<"D", "S", "L", "a", "u", "n", "c", "h", "e", "r", ".", "e", "x", "e">>
data_lower == <<"d", "a", "t", "a">>
freelancer_ini == <<"f", "r", "e", "e", "l", "a", "n", "c", "e", "r", ".", "i", "n", "i">>
MISSIONS == <<"M", "I", "S", "S", "I", "O", "N", "S">>
mbases_ini == <<"m", "b", "a", "s", "e", "s", ".", "i", "n", "i">>
news_ini == <<"n", "e", "w", "s", ".", "i", "n", "i">>
faction_prop_ini ==
    <<"f", "a", "c", "t", "i", "o", "n", "_", "p", "r", "o", "p", ".", "i", "n", "i">>
g1 == <<"g", "1">>
g2 == <<"g", "2">>
g3 == <<"g", "3">>
R_DLL == <<"R", ".", "D", "L", "L">>
r_dll == <<"r", ".", "d", "l", "l">>
n_dll == <<"n", ".", "d", "l", "l">>
U_INI == <<"U", ".", "I", "N", "I">>
u_ini == <<"u", ".", "i", "n", "i">>
s_ini == <<"s", ".", "i", "n", "i">>
x_file == <<"x">>
x_u_ini == <<"x", "\\", "u", ".", "i", "n", "i">>

\* the validation that asks for the base set whatever the flag
BaseSetOnly(tree, path, discovery) ==
    isdir(tree, path) /\ {DATA, DLLS, EXE} \subseteq Range(listdir(tree, path))

\* is_probably_freelancer
is_probably_freelancer(tree, path, discovery) ==
    LET identifiers == {DATA, DLLS, EXE} \cup (IF discovery THEN {DSLauncher_exe} ELSE {})
    IN isdir(tree, path) /\ identifiers \subseteq Range(listdir(tree, path))

\* str.replace('\\', '/')
Replace(p) == [i \in 1..Len(p) |-> IF p[i] = "\\" THEN Sep ELSE p[i]]

\* the try statement of construct_path, r being what fix_path_case(candidate)
\* gave
TryExcept(c, candidate, r) ==
    IF r.error = "FileNotFoundError"
    THEN [error |-> "", path |-> candidate, cache |-> c]
    ELSE [error |-> r.error, path |-> r.path, cache |-> Store(c, candidate, r)]

\* construct_path(*subpath): the candidate through fix_path_case, the candidate
\* itself when that raises FileNotFoundError; any other raise goes on.  With
\* the path comes the cache of fix_path_case after the call.
construct_path(c, tree, os, root, subpath) ==
    LET candidate == Replace(join(root, subpath))
    IN TryExcept(c, candidate, Cached(c, tree, os, candidate))

\* one more path of a comprehension, r being what construct_path gave
WithPath(acc, r) ==
    [error |-> r.error,
     paths |-> IF r.error = "" THEN Append(acc.paths, r.path) ELSE acc.paths,
     cache |-> r.cache]

\* construct_path(dir, f) for f in files, in order, until one raises
RECURSIVE ConstructAll(_, _, _, _, _, _)
ConstructAll(acc, tree, os, root, dir, files) ==
    IF files = <<>> \/ acc.error # "" THEN acc
    ELSE ConstructAll(
             WithPath(acc, construct_path(acc.cache, tree, os, root, join(dir, Head(files)))),
             tree, os, root, dir, Tail(files))

\* one more category of the comprehension, r being the tuple of its paths
WithCategory(acc, category, r) ==
    [error |-> r.error,
     entries |-> IF r.error = ""
                 THEN Append(acc.entries, [category |-> category, files |-> r.paths])
                 ELSE acc.entries,
     cache |-> r.cache]

\* the dict comprehension of line 89: one tuple of paths per category
RECURSIVE ConstructCategories(_, _, _, _, _)
ConstructCategories(acc, tree, os, root, items) ==
    IF items = <<>> \/ acc.error # "" THEN acc
    ELSE ConstructCategories(
             WithCategory(acc, Head(items).category,
                          ConstructAll([error |-> "", paths |-> <<>>, cache |-> acc.cache],
                                       tree, os, root, DATA, Head(items).files)),
             tree, os, root, Tail(items))

\* inis.update({category: ...}): later entries of one category win
UpdateInis(d, entries) ==
    LET keys == {entries[i].category : i \in 1..Len(entries)}
        lastOf(k) == CHOOSE i \in 1..Len(entries) :
                        /\ entries[i].category = k
                        /\ \A j \in 1..Len(entries) : entries[j].category = k => j <= i
    IN [k \in DOMAIN d \cup keys |-> IF k \in keys THEN entries[lastOf(k)].files ELSE d[k]]

\* dlls.update({i: ... for i, f in enumerate(resources, 1)})
UpdateDlls(d, paths) ==
    [i \in DOMAIN d \cup (1..Len(paths)) |-> IF i \in 1..Len(paths) THEN paths[i] ELSE d[i]]

\* data.update(root) on the (category, files) pairs of the two sections: a
\* category of root replaces the one of data in its place, a new one is added
RECURSIVE DictUpdate(_, _)
DictUpdate(data, root) ==
    IF root = <<>> THEN data
    ELSE LET hit == {k \in 1..Len(data) : data[k].category = Head(root).category}
         IN DictUpdate(IF hit = {} THEN Append(data, Head(root))
                       ELSE [data EXCEPT ![CHOOSE k \in hit : TRUE] = Head(root)],
                       Tail(root))

------------------------------------------------------------------------------
(* The installations on disk *)

Item(category, files) == [category |-> category, files |-> files]

\* EXE/freelancer.ini, as ini.parse gives its sections: [Freelancer], the dll
\* entries of [Resources], and [Data]
Config(root, dll, data) == [present |-> TRUE, root |-> root, dll |-> dll, data |-> data]

NoConfig == [present |-> FALSE, root |-> <<>>, dll |-> <<>>, data |-> <<>>]

Configs ==
    { NoConfig,
      Config(<<Item("world", <<u_ini>>)>>, <<r_dll, n_dll>>, <<Item("universe", <<u_ini, s_ini>>)>>),
      Config(<<>>, <<r_dll>>, <<Item("ships", <<s_ini>>)>>),
      Config(<<>>, <<r_dll, n_dll>>, <<Item("universe", <<x_u_ini>>)>>),
      Config(<<>>, <<r_dll>>, <<>>) }

\* what the installation directory holds at its top
Tops ==
    { <<DATA, DLLS, EXE>>,
      <<DATA, EXE, DSLauncher_exe, DLLS>>,
      <<DATA, EXE>>,
      <<data_lower, DLLS, EXE>> }

Installs == [top : Tops, config : Configs]

Slots == {g1, g2}

\* DATA/MISSIONS/mbases.ini of each installation
MBasesIni(slot) ==
    IF slot = g1 THEN <<Section("mbase", "a", FALSE, FALSE)>>
    ELSE <<Section("mbase", "b", FALSE, FALSE), Section("mvendor", Absent, FALSE, FALSE)>>

\* DATA/MISSIONS/news.ini, which only installation g1 has
NewsIni == <<Contents(List(<<"a", "b">>), List(<<"h1", "h2">>), None, None)>>

\* DATA/MISSIONS/faction_prop.ini, which only installation g1 has
FactionPropIni == <<PropsSection("f"), PropsSection("k"), PropsSection("f")>>

\* what DATA/MISSIONS of each installation holds
MissionsOf(slot) ==
    IF slot = g1 THEN <<mbases_ini, news_ini, faction_prop_ini>> ELSE <<mbases_ini>>

\* the tree of a disk with the installations w[g1] and w[g2] under the root
WorldTree(w) ==
    LET dataName(g) == IF DATA \in Range(w[g].top) THEN DATA ELSE data_lower
        dirs == {<<>>}
                \cup {<<g>> : g \in Slots}
                \cup {<<g, dataName(g)>> : g \in Slots}
                \cup {<<g, dataName(g), MISSIONS>> : g \in Slots}
                \cup {<<g, EXE>> : g \in Slots}
                \cup {<<g, DLLS>> : g \in {s \in Slots : DLLS \in Range(w[s].top)}}
    IN [d \in dirs |->
          IF d = <<>> THEN <<g1, g2>>
          ELSE IF Len(d) = 1 THEN w[d[1]].top
          ELSE IF Len(d) = 3 THEN MissionsOf(d[1])
          ELSE IF d[2] = EXE
               THEN (IF w[d[1]].config.present THEN <<freelancer_ini>> ELSE <<>>) \o <<R_DLL>>
          ELSE IF d[2] = DLLS THEN <<>>
          ELSE <<U_INI, s_ini, x_file, MISSIONS>>]

\* the ini files of that disk, each as its parser gives it:
\* EXE/freelancer.ini where there is one, and the files of DATA/MISSIONS
WorldContents(w) ==
    LET dataName(g) == IF DATA \in Range(w[g].top) THEN DATA ELSE data_lower
        cfgs == {PathOf(<<g, EXE, freelancer_ini>>) : g \in {s \in Slots : w[s].config.present}}
        mbs == {PathOf(<<g, dataName(g), MISSIONS, mbases_ini>>) : g \in Slots}
        nws == {PathOf(<<g1, dataName(g1), MISSIONS, news_ini>>)}
        fps == {PathOf(<<g1, dataName(g1), MISSIONS, faction_prop_ini>>)}
    IN [f \in cfgs \cup mbs \cup nws \cup fps |->
          IF f \in cfgs THEN w[Segments(f)[1]].config
          ELSE IF f \in mbs THEN MBasesIni(Segments(f)[1])
          ELSE IF f \in nws THEN NewsIni
          ELSE FactionPropIni]

\* the second installation has the three directories, and no root
\* configuration file or one of two
SecondInstalls ==
    [top : {<<DATA, DLLS, EXE>>},
     config : { NoConfig,
                Config(<<>>, <<r_dll>>, <<Item("ships", <<s_ini>>)>>),
                Config(<<>>, <<r_dll, n_dll>>, <<Item("universe", <<x_u_ini>>)>>) }]

Worlds == {w \in [Slots -> Installs] : w[g2] \in SecondInstalls}

\* ini.parse of EXE/freelancer.ini under root: the file as it is on disk at
\* exactly this path, NoConfig when there is none
ParseConfig(files, root) ==
    LET f == join(root, join(EXE, freelancer_ini))
    IN IF f \in DOMAIN files THEN files[f] ELSE NoConfig

------------------------------------------------------------------------------
(* set_install_path, generate_index, and get_mbases on the installation *)

IndexState(i, d, c, e) == [inis |-> i, dlls |-> d, cache |-> c, error |-> e]

\* line 89, cats being what its comprehension gave: inis.update, or its raise
IndexInis(i, d, cats) ==
    IF cats.error # "" THEN IndexState(i, d, cats.cache, cats.error)
    ELSE IndexState(UpdateInis(i, cats.entries), d, cats.cache, "")

\* line 88, dl being what its comprehension gave: dlls.update and then line
\* 89, or its raise
IndexDlls(i, d, tree, os, root, data, dl) ==
    IF dl.error # "" THEN IndexState(i, d, dl.cache, dl.error)
    ELSE IndexInis(i, UpdateDlls(d, dl.paths),
                   ConstructCategories([error |-> "", entries |-> <<>>, cache |-> dl.cache],
                                       tree, os, root, data))

\* the items of enumerate(resources, 1) on line 88. Line 84 reads the dll
\* entries with the parser's default fold_values, unlike lines 83 and 85: a
\* key that occurs once gives its value, a str, whose items are its
\* characters; a key that occurs several times gives the list of its values
ResourceFiles(dll) ==
    IF Len(dll) = 1 THEN [k \in 1..Len(dll[1]) |-> <<dll[1][k]>>] ELSE dll

\* generate_index(): parse the three sections (a raise when the file is
\* missing or [Resources] has no dll entry), data.update(root), then
\* dlls.update and inis.update, each after its whole comprehension has been
\* built
generate_index(i, d, c, tree, os, files, root) ==
    LET cfg == ParseConfig(files, root)
    IN IF ~cfg.present THEN IndexState(i, d, c, "ParseError")
       ELSE IF cfg.dll = <<>> THEN IndexState(i, d, c, "KeyError")
       ELSE IndexDlls(i, d, tree, os, root, DictUpdate(cfg.data, cfg.root),
                      ConstructAll([error |-> "", paths |-> <<>>, cache |-> c],
                                   tree, os, root, EXE, ResourceFiles(cfg.dll)))

MBasesSubpath == join(DATA, join(MISSIONS, mbases_ini))

NewsSubpath == join(DATA, join(MISSIONS, news_ini))

FactionPropSubpath == join(DATA, join(MISSIONS, faction_prop_ini))

\* what a call of a query gives, m being the outcome of its body and c the
\* cache of fix_path_case after construct_path
Folded(c, m) ==
    [error |-> IF m.status = "ok" THEN "" ELSE m.status, value |-> m.value, cache |-> c]

\* ini.group(path) and the fold, r being what construct_path gave
ReadMBases(files, r) ==
    IF r.error # "" THEN [error |-> r.error, value |-> <<>>, cache |-> r.cache]
    ELSE IF r.path \notin DOMAIN files
         THEN [error |-> "ParseError", value |-> <<>>, cache |-> r.cache]
    ELSE Folded(r.cache, get_mbases(files[r.path]))

\* the body of get_mbases on the installation: the sections of the file at
\* construct_path('DATA/MISSIONS/mbases.ini'), folded.  Reading `install`
\* before it was ever set raises.
LoadMBases(c, tree, os, files, root) ==
    IF root = Unset THEN [error |-> "NameError", value |-> <<>>, cache |-> c]
    ELSE ReadMBases(files, construct_path(c, tree, os, root, MBasesSubpath))

\* ini.parse(path) and the loop, r being what construct_path gave
ReadNews(files, r) ==
    IF r.error # "" THEN [error |-> r.error, value |-> <<>>, cache |-> r.cache]
    ELSE IF r.path \notin DOMAIN files
         THEN [error |-> "ParseError", value |-> <<>>, cache |-> r.cache]
    ELSE Folded(r.cache, get_news(files[r.path]))

\* the body of get_news on the installation
LoadNews(c, tree, os, files, root) ==
    IF root = Unset THEN [error |-> "NameError", value |-> <<>>, cache |-> c]
    ELSE ReadNews(files, construct_path(c, tree, os, root, NewsSubpath))

\* ini.sections(path) and the comprehension, r being what construct_path gave
ReadFactionProps(files, r) ==
    IF r.error # "" THEN [error |-> r.error, value |-> <<>>, cache |-> r.cache]
    ELSE IF r.path \notin DOMAIN files
         THEN [error |-> "ParseError", value |-> <<>>, cache |-> r.cache]
    ELSE Folded(r.cache, get_faction_props(files[r.path]))

\* the body of get_faction_props on the installation
LoadFactionProps(c, tree, os, files, root) ==
    IF root = Unset THEN [error |-> "NameError", value |-> <<>>, cache |-> c]
    ELSE ReadFactionProps(files, construct_path(c, tree, os, root, FactionPropSubpath))

------------------------------------------------------------------------------
(* The operations of the installation *)

\* the call made last and how it ended; with it, the root of the last
\* set_install_path that returned
Call(op, path, discovery, error, value, indexed) ==
    [op |-> op, path |-> path, discovery |-> discovery, error |-> error, value |-> value,
     indexed |-> indexed]

\* set_install_path(new_path, discovery): the assert, then install and
\* generate_index()
SetInstallPath(new_path, discovery) ==
    IF ~is_probably_freelancer(fs, new_path, discovery)
    THEN /\ last' = Call("set_install_path", new_path, discovery, "AssertionError", <<>>,
                         last.indexed)
         /\ UNCHANGED <<foldVars, pathVars, install, inis, dlls, disk, newsVars>>
    ELSE \E g \in {generate_index(inis, dlls, cache, fs, osName, disk, new_path)} :
            /\ install' = new_path
            /\ inis' = g.inis
            /\ dlls' = g.dlls
            /\ cache' = g.cache
            /\ last' = Call("set_install_path", new_path, discovery, g.error, <<>>,
                            IF g.error = "" THEN new_path ELSE last.indexed)
            /\ UNCHANGED <<foldVars, fs, osName, outcomes, disk, newsVars>>

\* construct_path(subpath), called from outside the module
ConstructPath(subpath) ==
    IF install = Unset
    THEN /\ last' = Call("construct_path", subpath, FALSE, "NameError", <<>>, last.indexed)
         /\ UNCHANGED <<foldVars, pathVars, install, inis, dlls, disk, newsVars>>
    ELSE \E r \in {construct_path(cache, fs, osName, install, subpath)} :
            /\ cache' = r.cache
            /\ last' = Call("construct_path", subpath, FALSE, r.error, r.path, last.indexed)
            /\ UNCHANGED <<foldVars, fs, osName, outcomes, install, inis, dlls, disk, newsVars>>

\* get_mbases() under @cached: the dict of the first call that returned, and
\* until then the body, which goes through construct_path
GetMBases ==
    IF mbases.status = "ok"
    THEN /\ last' = Call("get_mbases", <<>>, FALSE, "", mbases.value, last.indexed)
         /\ UNCHANGED <<foldVars, pathVars, install, inis, dlls, disk, newsVars>>
    ELSE \E m \in {LoadMBases(cache, fs, osName, disk, install)} :
            /\ mbases' = IF m.error = "" THEN [status |-> "ok", value |-> m.value] ELSE mbases
            /\ cache' = m.cache
            /\ last' = Call("get_mbases", <<>>, FALSE, m.error, m.value, last.indexed)
            /\ UNCHANGED <<stream, props, fs, osName, outcomes, install, inis, dlls, disk,
                           newsVars>>

\* get_news() under @cached
GetNews ==
    IF news.status = "ok"
    THEN /\ last' = Call("get_news", <<>>, FALSE, "", news.value, last.indexed)
         /\ UNCHANGED <<foldVars, pathVars, install, inis, dlls, disk, newsVars>>
    ELSE \E m \in {LoadNews(cache, fs, osName, disk, install)} :
            /\ news' = IF m.error = "" THEN [status |-> "ok", value |-> m.value] ELSE news
            /\ cache' = m.cache
            /\ last' = Call("get_news", <<>>, FALSE, m.error, m.value, last.indexed)
            /\ UNCHANGED <<foldVars, fs, osName, outcomes, install, inis, dlls, disk, feed>>

\* get_faction_props() under @cached
GetFactionProps ==
    IF props.status = "ok"
    THEN /\ last' = Call("get_faction_props", <<>>, FALSE, "", props.value, last.indexed)
         /\ UNCHANGED <<foldVars, pathVars, install, inis, dlls, disk, newsVars>>
    ELSE \E m \in {LoadFactionProps(cache, fs, osName, disk, install)} :
            /\ props' = IF m.error = "" THEN [status |-> "ok", value |-> m.value] ELSE props
            /\ cache' = m.cache
            /\ last' = Call("get_faction_props", <<>>, FALSE, m.error, m.value, last.indexed)
            /\ UNCHANGED <<stream, mbases, fs, osName, outcomes, install, inis, dlls, disk,
                           newsVars>>

------------------------------------------------------------------------------
(* SpecIndex *)

Roots == {PathOf(<<g1>>), PathOf(<<g2>>), PathOf(<<g3>>)}

\* what construct_path is called with from outside the module
Subpaths == {DATA}

\* the process after import, on a disk with two installations
InitIndex ==
    /\ \E w \in Worlds : fs = WorldTree(w) /\ disk = WorldContents(w)
    /\ stream = MBasesIni(g1)
    /\ feed = NewsIni
    /\ mbases = NotCalled
    /\ props = NotCalled
    /\ news = NotCalled
    /\ osName = "posix"
    /\ cache = <<>>
    /\ outcomes = <<>>
    /\ install = Unset
    /\ inis = <<>>
    /\ dlls = <<>>
    /\ last = NoCall

NextIndex ==
    \/ \E new_path \in Roots, discovery \in BOOLEAN : SetInstallPath(new_path, discovery)
    \/ \E subpath \in Subpaths : ConstructPath(subpath)
    \/ GetMBases
    \/ GetNews
    \/ GetFactionProps

SpecIndex == InitIndex /\ [][NextIndex]_vars

------------------------------------------------------------------------------
(* SpecFold, SpecNews: one installation, whose file under study varies *)

\* a disk where g1 and g2 are installations whose root configuration file
\* declares one resource file and no category
StudyWorld ==
    [g \in Slots |-> [top |-> <<DATA, DLLS, EXE>>, config |-> Config(<<>>, <<r_dll>>, <<>>)]]

StudyRoot == PathOf(<<g1>>)

StudyTree == WorldTree(StudyWorld)

StudyFiles == WorldContents(StudyWorld)

\* the files of StudyWorld, with f holding what has been put there
StudyContents(f, sections) ==
    [q \in DOMAIN StudyFiles |-> IF q = f THEN sections ELSE StudyFiles[q]]

\* what generate_index() gives when set_install_path(StudyRoot) is the first
\* call of the process; it reads EXE/freelancer.ini only
StudyIndex == generate_index(<<>>, <<>>, <<>>, StudyTree, "posix", StudyFiles, StudyRoot)

\* the process after its first call, set_install_path(StudyRoot), has returned
Installed ==
    /\ StudyIndex.error = ""
    /\ install = StudyRoot
    /\ inis = StudyIndex.inis
    /\ dlls = StudyIndex.dlls
    /\ cache = StudyIndex.cache
    /\ last = Call("set_install_path", StudyRoot, FALSE, "", <<>>, StudyRoot)

\* g1's mbases.ini holds any stream of up to MaxStream sections or the example
\* file, and set_install_path('/g1') has returned
InitFold ==
    /\ stream \in SeqsUpTo(Sections, MaxStream) \cup {ExampleStream, RepeatedStream}
    /\ feed = NewsIni
    /\ fs = StudyTree
    /\ disk = StudyContents(join(StudyRoot, MBasesSubpath), stream)
    /\ mbases = NotCalled
    /\ props = NotCalled
    /\ news = NotCalled
    /\ osName = "posix"
    /\ outcomes = <<>>
    /\ Installed

NextFold == GetMBases

SpecFold == InitFold /\ [][NextFold]_vars

\* g1's news.ini holds any sections, and set_install_path('/g1') has returned
InitNews ==
    /\ stream = MBasesIni(g1)
    /\ feed \in SeqsUpTo(NewsRecords, MaxNews)
    /\ fs = StudyTree
    /\ disk = StudyContents(join(StudyRoot, NewsSubpath), feed)
    /\ mbases = NotCalled
    /\ props = NotCalled
    /\ news = NotCalled
    /\ osName = "posix"
    /\ outcomes = <<>>
    /\ Installed

NextNews == GetNews

SpecNews == InitNews /\ [][NextNews]_vars

------------------------------------------------------------------------------
(* Claims about get_mbases *)

\* the last call was a get_mbases that had a root to read mbases.ini from
Called == last.op = "get_mbases" /\ install # Unset

Returned == mbases.status = "ok"

MBasePositions == {i \in 1..Len(stream) : stream[i].kind = "mbase"}

\* the place of the mbase section seen last before place i, 0 when there is none
LastMBaseBefore(i) ==
    LET before == {j \in MBasePositions : j < i}
    IN IF before = {} THEN 0 ELSE CHOOSE j \in before : \A k \in before : k <= j

ListOf(b, kind) ==
    CASE kind = "mvendor" -> b.vendors
      [] kind = "basefaction" -> b.factions
      [] kind = "gf_npc" -> b.npcs
      [] kind = "mroom" -> b.rooms

Srcs(list) == [k \in 1..Len(list) |-> list[k].src]

Increasing(s) == \A i, j \in 1..Len(s) : i < j => s[i] < s[j]

\* every child entity of base b sits in the list of its own kind
InMatchingLists(b) ==
    \A kind \in ChildKinds :
        \A c \in Range(ListOf(b, kind)) : stream[c.src].kind = kind

ExampleResult ==
    /\ Returned
    /\ Len(mbases.value) = 2
    /\ mbases.value[1].nickname = "a" /\ mbases.value[2].nickname = "b"
    /\ Srcs(mbases.value[1].vendors) = <<2>>
    /\ Srcs(mbases.value[1].factions) = <<3>>
    /\ mbases.value[1].npcs = <<>> /\ mbases.value[1].rooms = <<>>
    /\ Srcs(mbases.value[2].rooms) = <<5>>
    /\ mbases.value[2].vendors = <<>> /\ mbases.value[2].factions = <<>>
    /\ mbases.value[2].npcs = <<>>

\* C1: every child entity of the returned collection is in the list of its
\* kind of the MBase built from the mbase section seen last before it, and in
\* no other base; the stream [mbase a, mvendor, basefaction, mbase b, mroom]
\* gives two bases, a owning the vendor and the faction, b owning the room.
C1_ChildOfMostRecentMBase ==
    Returned =>
        /\ \A k \in 1..Len(mbases.value) :
              LET b == mbases.value[k]
              IN /\ InMatchingLists(b)
                 /\ \A kind \in ChildKinds : \A c \in Range(ListOf(b, kind)) :
                       /\ b.src = LastMBaseBefore(c.src)
                       /\ \A m \in 1..Len(mbases.value) : m # k =>
                             \A kind2 \in ChildKinds :
                                 c \notin Range(ListOf(mbases.value[m], kind2))
        /\ stream = ExampleStream => ExampleResult

\* the sections of C1's example stream, folded
C1_ExampleFolded == Called /\ stream = ExampleStream /\ ExampleResult

OrderPreserved ==
    /\ Increasing(Srcs(mbases.value))
    /\ \A k \in 1..Len(mbases.value) : \A kind \in ChildKinds :
          Increasing(Srcs(ListOf(mbases.value[k], kind)))

DistinctNicknames ==
    \A i, j \in MBasePositions : i # j => stream[i].nickname # stream[j].nickname

\* C2 as stated: the returned collection lists the bases in the order their
\* mbase sections were declared, and every child list of every base holds its
\* entries in source order.
C2_OrderPreservedAlways == Returned => OrderPreserved

\* C2, amended: when the mbase sections of the stream have pairwise distinct
\* nicknames, the returned collection lists the bases in declaration order
\* and every child list of every base holds its entries in source order.
C2_OrderPreserved == (Returned /\ DistinctNicknames) => OrderPreserved

\* two bases returned from distinct nicknames, one of them with a list of two
C2_Witness ==
    /\ Returned /\ DistinctNicknames
    /\ Len(mbases.value) = 2
    /\ \E k \in 1..2 : \E kind \in ChildKinds : Len(ListOf(mbases.value[k], kind)) >= 2

\* C3: when the first section of the stream is an mvendor, basefaction, gf_npc
\* or mroom, get_mbases raises the unbound-name error for `base` and returns
\* no collection.
C3_ChildFirstRaises ==
    (Called /\ stream # <<>> /\ stream[1].kind \in ChildKinds) =>
        /\ last.error = "UnboundLocalError"
        /\ last.value = <<>>
        /\ mbases = NotCalled

\* get_mbases was applied to a stream that starts with a child section and
\* goes on with an mbase
C3_Witness ==
    /\ Called /\ Len(stream) >= 2
    /\ stream[1].kind \in ChildKinds /\ stream[2].kind = "mbase"
    /\ last.error = "UnboundLocalError"

\* the bases of the returned collection
Bases == Range(mbases.value)

\* C13: no entry of any returned base's factions list was made from a
\* basefaction section that has a reputation key, and when every basefaction
\* section of the stream has one, every factions list is empty.
C13_ReputationExcluded ==
    Returned =>
        /\ \A b \in Bases : \A c \in Range(b.factions) :
              stream[c.src].kind = "basefaction" /\ ~stream[c.src].reputation
        /\ (\A i \in 1..Len(stream) :
               stream[i].kind = "basefaction" => stream[i].reputation)
              => \A b \in Bases : b.factions = <<>>

\* a base was returned from a stream where two basefaction sections follow one
\* another behind it, one with reputation and one without; and a base was
\* returned whose only basefaction section has reputation
C13_Witness ==
    /\ Returned
    /\ \/ \E i \in 1..Len(stream) - 1 :
             /\ stream[i].kind = "basefaction" /\ stream[i].reputation
             /\ stream[i + 1].kind = "basefaction" /\ ~stream[i + 1].reputation
             /\ \E b \in Bases : Srcs(b.factions) = <<i + 1>>
       \/ /\ Len(stream) = 2 /\ stream[2].kind = "basefaction" /\ stream[2].reputation
          /\ \E b \in Bases : b.factions = <<>>

\* C14: no entry of any returned base's npcs list was made from a gf_npc
\* section without nickname; every npcs list is in source order; and, the
\* mbase nicknames being pairwise distinct, every gf_npc section with a
\* nickname has its entry in the npcs list of the base built from the mbase
\* section seen last before it.
C14_NpcsWithNickname ==
    Returned =>
        /\ \A b \in Bases : \A c \in Range(b.npcs) :
              stream[c.src].kind = "gf_npc" /\ stream[c.src].nickname # Absent
        /\ \A b \in Bases : Increasing(Srcs(b.npcs))
        /\ DistinctNicknames =>
              \A i \in 1..Len(stream) :
                  (stream[i].kind = "gf_npc" /\ stream[i].nickname # Absent) =>
                      \E b \in Bases :
                          b.src = LastMBaseBefore(i) /\ i \in Range(Srcs(b.npcs))

\* C17: for a stream whose mbase sections have pairwise distinct nicknames,
\* the returned collection has exactly one base per mbase section.
C17_OneBasePerMBase ==
    (Returned /\ DistinctNicknames) =>
        /\ {b.src : b \in Bases} = MBasePositions
        /\ Len(mbases.value) = Cardinality(MBasePositions)

------------------------------------------------------------------------------
(* Claims about fix_path_case *)

\* every file and directory of the tree, as the names leading to it
Nodes(tree) ==
    {<<>>} \cup UNION { {Append(d, tree[d][i]) : i \in 1..Len(tree[d])} : d \in DOMAIN tree }

\* the nodes of the tree that path names up to the case of each segment
Variants(tree, path) ==
    LET segs == Segments(path)
    IN {n \in Nodes(tree) :
          /\ Len(n) = Len(segs)
          /\ \A i \in 1..Len(n) : casefold(n[i]) = casefold(segs[i])}

ExistsModuloCasing(tree, path) == Variants(tree, path) # {}

Returns(o) == o.error = ""

\* C4: on a case-sensitive filesystem every call of resolve with a path of at
\* least one segment that exists modulo casing returns, and returns a path
\* without trailing separator that names a node of the tree whose segments
\* equal the argument's up to case folding.
C4_ResolvesWhatExists ==
    osName = "posix" =>
        \A path \in DOMAIN outcomes :
            (Segments(path) # <<>> /\ ExistsModuloCasing(fs, path)) =>
                \A o \in outcomes[path] :
                    /\ Returns(o)
                    /\ Segments(o.path) \in Variants(fs, path)
                    /\ o.path = PathOf(Segments(o.path))

\* C5: resolve(resolve(p)) = resolve(p): when a call with p returned r and
\* resolve was called with r, that call returned r.
C5_Idempotent ==
    \A path \in DOMAIN cache :
        cache[path] \in DOMAIN outcomes => outcomes[cache[path]] = {Ok(cache[path])}

\* on a case-sensitive filesystem a path of two wrongly cased names was
\* resolved, and so was the path it resolved to
C5_Witness ==
    /\ osName = "posix"
    /\ \E path \in DOMAIN cache :
          /\ Len(Segments(path)) = 2
          /\ \A i \in 1..2 : Segments(path)[i] # Segments(cache[path])[i]
          /\ cache[path] \in DOMAIN cache

\* C6: all the calls of resolve with one path string that returned, returned
\* the same value, whatever the tree was at each call.
C6_SameResult ==
    \A path \in DOMAIN outcomes :
        Cardinality({o \in outcomes[path] : Returns(o)}) <= 1

\* a path was resolved, and the tree has changed since so that resolving it
\* afresh would give another path or raise
C6_Witness ==
    /\ osName = "posix"
    /\ \E path \in DOMAIN cache :
          /\ Ok(cache[path]) \in outcomes[path]
          /\ fix_path_case(fs, osName, path) # Ok(cache[path])
          /\ Returns(fix_path_case(fs, osName, path))

\* C16: every call of resolve ends by returning or by failing on a segment
\* that the filesystem does not have: the climb of correct_subpath reaches an
\* existing ancestor and the loop of the driver reaches the length of the
\* input, so no call ends in unbounded recursion or repeats a round forever.
C16_Terminates ==
    \A path \in DOMAIN outcomes :
        \A o \in outcomes[path] : o.error \notin {"RecursionError", "Hang"}

\* C19: on a case-sensitive filesystem a call of resolve with a path of at
\* least one segment that exists as written returns that path without its
\* trailing separators.
C19_ExactPathUnchanged ==
    osName = "posix" =>
        \A path \in DOMAIN outcomes :
            (Segments(path) # <<>> /\ exists(fs, rstrip(path))) =>
                outcomes[path] = {Ok(rstrip(path))}

------------------------------------------------------------------------------
(* Claims about the installation index *)

AfterSetInstallPath == last.op = "set_install_path"

\* the entries the directory at path holds, none when it is no directory
EntriesAt(path) ==
    IF Segments(path) \in DOMAIN fs THEN Range(fs[Segments(path)]) ELSE {}

\* path holds DATA, DLLS and EXE, and DSLauncher.exe when the flag is set
HasRequired(path, discovery) ==
    /\ {DATA, DLLS, EXE} \subseteq EntriesAt(path)
    /\ discovery => DSLauncher_exe \in EntriesAt(path)

\* EXE/freelancer.ini of the installation at root, as it is on disk
ConfigOf(root) == ParseConfig(disk, root)

\* the categories that [Data] and [Freelancer] of a configuration declare
Declared(cfg) ==
    {cfg.data[i].category : i \in 1..Len(cfg.data)}
        \cup {cfg.root[i].category : i \in 1..Len(cfg.root)}

\* the files a configuration declares for a category: those of [Freelancer]
\* when it has the category, else those of [Data]
FilesOf(cfg, k) ==
    LET r == {i \in 1..Len(cfg.root) : cfg.root[i].category = k}
        d == {i \in 1..Len(cfg.data) : cfg.data[i].category = k}
    IN IF r # {} THEN cfg.root[CHOOSE i \in r : \A j \in r : j <= i].files
       ELSE cfg.data[CHOOSE i \in d : \A j \in d : j <= i].files

\* paths names, file by file and up to case, the files under root/dir
BuiltFrom(paths, root, dir, files) ==
    /\ Len(paths) = Len(files)
    /\ \A i \in 1..Len(files) :
          casefold(paths[i]) = casefold(Replace(join(root, join(dir, files[i]))))

\* C7 as stated: set_root succeeds with a non-empty category index when path
\* holds DATA, DLLS and EXE (and the launcher marker when the flag is set), and
\* fails with the validation error for any other path.
C7_SucceedsOnRequiredEntries ==
    AfterSetInstallPath =>
        IF HasRequired(last.path, last.discovery)
        THEN last.error = "" /\ DOMAIN inis # {}
        ELSE last.error = "AssertionError"

\* C7: set_root fails with the validation error exactly when path does not
\* hold DATA, DLLS and EXE (and the launcher marker when the flag is set); a
\* path that holds them but has no root configuration file fails with the
\* parse error; and when set_root returns, the root is path and the category
\* index has every category the root configuration file declares, with the
\* paths of the files declared for it.
C7_ValidatesThenIndexes ==
    AfterSetInstallPath =>
        /\ last.error = "AssertionError" <=> ~HasRequired(last.path, last.discovery)
        /\ (HasRequired(last.path, last.discovery) /\ ~ConfigOf(last.path).present)
              => last.error = "ParseError"
        /\ last.error = "" =>
              /\ install = last.path
              /\ ConfigOf(install).present
              /\ \A k \in Declared(ConfigOf(install)) :
                    /\ k \in DOMAIN inis
                    /\ BuiltFrom(inis[k], install, DATA, FilesOf(ConfigOf(install), k))

\* set_root with the flag set has returned on a directory with the launcher
\* marker, and the category index has the categories of both sections
C7_Witness ==
    /\ AfterSetInstallPath
    /\ last.discovery
    /\ last.error = ""
    /\ ConfigOf(install).root # <<>>
    /\ Declared(ConfigOf(install)) = DOMAIN inis

\* C8: after a set_root that returned, the category index and the slot index
\* have exactly the categories and the slots that the root configuration file
\* of the new root declares.
C8_FullInvalidation ==
    (AfterSetInstallPath /\ last.error = "") =>
        /\ DOMAIN inis = Declared(ConfigOf(install))
        /\ DOMAIN dlls = 1..Len(ConfigOf(install).dll)

\* what the query op gives in a process that has nothing cached
Fresh(op) ==
    CASE op = "get_mbases" -> LoadMBases(<<>>, fs, osName, disk, install)
      [] op = "get_news" -> LoadNews(<<>>, fs, osName, disk, install)
      [] op = "get_faction_props" -> LoadFactionProps(<<>>, fs, osName, disk, install)

\* C9: a get_mbases, get_news or get_faction_props that returns after a
\* set_root that returned gives the collection built from the file of the root
\* set by it.
C9_QueryFromCurrentRoot ==
    (/\ last.op \in {"get_mbases", "get_news", "get_faction_props"}
     /\ last.error = ""
     /\ last.indexed = install) =>
        \E fresh \in {Fresh(last.op)} : fresh.error = "" /\ last.value = fresh.value

\* C10: set_root never fails because a path could not be case-resolved: a call
\* that passed the validation and found the root configuration file does not
\* end in an error of resolve.
C10_IndexingNeverFailsOnResolve ==
    AfterSetInstallPath =>
        last.error \notin {"FileNotFoundError", "NotADirectoryError", "RecursionError"}

\* C15: the set_root that is the first of the process to return leaves the
\* slot index with exactly the keys 1..n, n being the number of resource files
\* that the root configuration file declares, and slot i holding the path of
\* the i-th declared file under EXE; 0 is no key.
C15_SlotsOfFirstSuccess ==
    [][(last.indexed = Unset /\ last'.indexed # Unset) =>
          /\ DOMAIN dlls' = 1..Len(ParseConfig(disk', install').dll)
          /\ 0 \notin DOMAIN dlls'
          /\ BuiltFrom(dlls', install', EXE, ParseConfig(disk', install').dll)]_vars

\* C18: a set_root that fails leaves the recorded root, the category index
\* and the slot index as they were before the call.
C18_FailureChangesNothing ==
    [][(last'.op = "set_install_path" /\ last'.error # "") =>
          /\ install' = install
          /\ inis' = inis
          /\ dlls' = dlls]_vars

------------------------------------------------------------------------------
(* Claims about get_news *)

NewsReturned == news.status = "ok"

\* the items filed under base b
Under(b) == IF b \in DOMAIN news.value THEN news.value[b] ELSE <<>>

\* every item of the index, as the base and the place it is filed at
Filed == UNION {{<<b, i>> : i \in 1..Len(news.value[b])} : b \in DOMAIN news.value}

ItemAt(f) == news.value[f[1]][f[2]]

\* the values of every occurrence of key in a section, in file order
Occurrences(contents, key) ==
    IF key \in DOMAIN contents THEN contents[key].v ELSE <<>>

\* C11: in every NewsItem that get_news made, a field other than base and
\* rank that occurred several times in the section holds the value of the last
\* occurrence, and base and rank, when they occurred several times, hold the
\* list of all their occurrences in file order.
C11_LastOccurrenceExceptBaseRank ==
    NewsReturned =>
        \A f \in Filed :
            \A k \in DOMAIN feed[ItemAt(f).src] :
                LET raw == feed[ItemAt(f).src][k]
                IN raw.type = "list" =>
                      IF k \in {"base", "rank"}
                      THEN ItemAt(f).fields[k] = List(Occurrences(feed[ItemAt(f).src], k))
                      ELSE ItemAt(f).fields[k] = Str(raw.v[Len(raw.v)])

\* an item was made from a section where base occurs three times, headline,
\* rank and icon twice
C11_Witness ==
    /\ NewsReturned
    /\ \E f \in Filed :
          /\ Len(Occurrences(feed[ItemAt(f).src], "base")) = 3
          /\ \A k \in {"headline", "rank", "icon"} :
                Len(Occurrences(feed[ItemAt(f).src], k)) = 2

\* C12: when get_news returns, the index has, for every section and every
\* base, as many items made from the section under the base as the section
\* names the base; no two items of the index are one instance; and every item
\* holds as base the list of all the base occurrences of its section.
C12_ReplicatedPerBase ==
    NewsReturned =>
        /\ \A j \in 1..Len(feed) :
              \A b \in DOMAIN news.value \cup Range(Occurrences(feed[j], "base")) :
                  Cardinality({i \in 1..Len(Under(b)) : Under(b)[i].src = j})
                      = Cardinality({n \in 1..Len(Occurrences(feed[j], "base")) :
                                        Occurrences(feed[j], "base")[n] = b})
        /\ \A f, g \in Filed : f # g => ItemAt(f).id # ItemAt(g).id
        /\ \A f \in Filed :
              ItemAt(f).fields["base"] = List(Occurrences(feed[ItemAt(f).src], "base"))

====
